---- MODULE Spec2Model ----
(***************************************************************************)
(* scripts/analyze-sentiment-xai.py: one run of the sentiment script.      *)
(*                                                                         *)
(* The response text of the model is a sequence of LINES.  Every regular   *)
(* expression of the script is modelled by what it matches on such a text: *)
(* which lines hold "###", a heading, a "**Score:**" field, the            *)
(* "**Example Tweets" marker, or one labelled field of a numbered entry.   *)
(* Extracted strings are the line sequences a group captures; str.strip()  *)
(* removes the blank lines at both ends; float() is computed on the        *)
(* characters the score group captures.                                    *)
(***************************************************************************)
EXTENDS Integers, Sequences, FiniteSets, TLC

\* Bounds of the model.
MaxArgs == 3          \* positional arguments given on the command line
MaxSections == 4      \* sections of a response text given to the extractor
MaxRunSections == 2   \* sections of a response text in a whole run

\* "three example tweets for each left, right, and center" (the prompt).
TweetsPerSection == 3

VARIABLES
    pc,        \* position of the run in the script
    argv,      \* the positional arguments: sys.argv[1:]
    prompt,    \* the prompt built from title and url, <<>> before
    calls,     \* chat.sample() calls issued so far
    shape,     \* how the upstream composed its response (layout, defect)
    content,   \* response.content, a sequence of lines
    result,    \* what analyze_sentiment returned
    raised,    \* the exception that left analyze_sentiment, "" if none
    stdout,    \* records printed to standard output
    stderr,    \* records printed to standard error
    exitCode,  \* exit status, -1 while running
    stages     \* the stages executed so far, in order

vars == <<pc, argv, prompt, calls, shape, content, result, raised,
          stdout, stderr, exitCode, stages>>

---------------------------------------------------------------------------
\* Lines of a response text.

SummaryHeading == "Non-Biased Review"
Perspectives == {"Left", "Center", "Right"}
Headings == {SummaryHeading} \cup Perspectives

\* k: kind of line, h: heading name, s: section the upstream wrote it in,
\* n: number of the entry, v: the characters after "**Score:** ".
Line(k, h, s, n, v) == [k |-> k, h |-> h, s |-> s, n |-> n, v |-> v]

HeadLine(h, s)  == Line("Head", h, s, 0, <<>>)      \* "### <h>"
ScoreLine(s, v) == Line("Score", "", s, 0, v)       \* "**Score:** <v>"
TextLine(s)     == Line("Text", "", s, 0, <<>>)     \* prose
MarkerLine(s)   == Line("Marker", "", s, 0, <<>>)   \* "**Example Tweets:**"
AcctLine(s, n)  == Line("Acct", "", s, n, <<>>)     \* "<n>. **Account:** @a"
TTextLine(s, n) == Line("TText", "", s, n, <<>>)    \* "**Tweet Text:** t"
LinkLine(s, n)  == Line("Link", "", s, n, <<>>)     \* "**Link:** https://x"
BlankLine       == Line("Blank", "", 0, 0, <<>>)    \* ""

\* Score literals the upstream writes, by section, and the numbers they denote
\* (n / 10^e).
ScoreStr(s) ==
    CASE s % 5 = 1 -> <<"0", ".", "5">>
      [] s % 5 = 2 -> <<"-", "0", ".", "2", "5">>
      [] s % 5 = 3 -> <<"0">>
      [] s % 5 = 4 -> <<"-", ".", "5", "0">>
      [] OTHER     -> <<"1", ".", "0", " ", "!">>

ScoreVal(s) ==
    CASE s % 5 = 1 -> [n |-> 5, e |-> 1]
      [] s % 5 = 2 -> [n |-> -25, e |-> 2]
      [] s % 5 = 3 -> [n |-> 0, e |-> 0]
      [] s % 5 = 4 -> [n |-> -5, e |-> 1]
      [] OTHER     -> [n |-> 1, e |-> 0]

\* Score fields the pattern [-\d.]+ accepts and float() does not.
BadScoreStr(s) ==
    IF s % 2 = 1 THEN <<"-">> ELSE <<"1", ".", "2", ".", "3">>

\* What can be wrong with one perspective section of a response.
Defects == {"noScore", "badScore", "noMarker", "noAcct", "noTText", "noLink"}

\* Entry n of section s; with a defect the second entry lacks one field.
Entry(s, n, d) ==
    LET bad == IF n = 2 THEN d ELSE "none" IN
    (IF bad = "noAcct" THEN <<>> ELSE <<AcctLine(s, n)>>)
    \o (IF bad = "noTText" THEN <<>> ELSE <<TTextLine(s, n)>>)
    \o (IF bad = "noLink" THEN <<>> ELSE <<LinkLine(s, n)>>)

RECURSIVE Entries(_, _, _)
Entries(s, n, d) ==
    IF n > TweetsPerSection THEN <<>>
    ELSE Entry(s, n, d) \o Entries(s, n + 1, d)

\* The lines of section s with heading h and defect d ("none": well-formed).
Section(h, s, d) ==
    IF h = SummaryHeading
    THEN <<HeadLine(h, s), TextLine(s), BlankLine>>
    ELSE <<HeadLine(h, s)>>
         \o (CASE d = "noScore"  -> <<>>
               [] d = "badScore" -> <<ScoreLine(s, BadScoreStr(s))>>
               [] OTHER          -> <<ScoreLine(s, ScoreStr(s))>>)
         \o <<TextLine(s)>>
         \o (IF d = "noMarker" THEN <<>> ELSE <<MarkerLine(s)>>)
         \o Entries(s, 1, d)
         \o <<BlankLine>>

\* A response is a sequence of sections, at most one of them defective.
Layouts(max) == UNION {[1..n -> Headings] : n \in 0..max}

Shapes(max) ==
    {[layout |-> lay, at |-> 0, defect |-> "none"] : lay \in Layouts(max)}
    \cup UNION {
        {[layout |-> lay, at |-> i, defect |-> d] :
            i \in {j \in 1..Len(lay) : lay[j] \in Perspectives}, d \in Defects}
        : lay \in Layouts(max)}

DefectOf(sh, i) == IF sh.at = i THEN sh.defect ELSE "none"

RECURSIVE TextFrom(_, _)
TextFrom(sh, i) ==
    IF i > Len(sh.layout) THEN <<>>
    ELSE Section(sh.layout[i], i, DefectOf(sh, i)) \o TextFrom(sh, i + 1)

TextOf(sh) == TextFrom(sh, 1)

---------------------------------------------------------------------------
\* What the patterns see of a line.

HasHashes(l) == l.k = "Head"                       \* ### occurs in the line
IsHeading(l, name) == l.k = "Head" /\ l.h = name   \* "### <name>"
IsBlank(l) == l.k = "Blank"                        \* \s* up to the newline
IsMarker(l) == l.k = "Marker"                      \* **Example Tweets:**

Digits == {"0", "1", "2", "3", "4", "5", "6", "7", "8", "9"}
ScoreClass == {"-", "."} \cup Digits               \* [-\d.]

DigitVal(ch) ==
    CASE ch = "0" -> 0 [] ch = "1" -> 1 [] ch = "2" -> 2 [] ch = "3" -> 3
      [] ch = "4" -> 4 [] ch = "5" -> 5 [] ch = "6" -> 6 [] ch = "7" -> 7
      [] ch = "8" -> 8 [] ch = "9" -> 9

\* ([-\d.]+): the longest run of class characters at the start of v.
RECURSIVE ScoreRun(_)
ScoreRun(v) ==
    IF v = <<>> \/ Head(v) \notin ScoreClass THEN <<>>
    ELSE <<Head(v)>> \o ScoreRun(Tail(v))

\* float(): an optional sign, then digits with at most one point and at
\* least one digit; anything else raises ValueError.  The value is n / 10^e.
RECURSIVE DigitsValue(_, _)
DigitsValue(v, acc) ==
    IF v = <<>> THEN acc
    ELSE DigitsValue(Tail(v),
                     IF Head(v) = "." THEN acc ELSE 10 * acc + DigitVal(Head(v)))

RECURSIVE Normalise(_, _)
Normalise(n, e) ==
    IF e > 0 /\ n % 10 = 0 THEN Normalise(n \div 10, e - 1)
    ELSE [n |-> n, e |-> e]

\* A float() that loses the sign.
ParseFloatUnsigned(v) ==
    LET neg  == v # <<>> /\ Head(v) = "-"
        body == IF neg THEN Tail(v) ELSE v
        dots == {i \in 1..Len(body) : body[i] = "."}
        digs == {i \in 1..Len(body) : body[i] \in Digits}
        ok   == /\ digs # {}
                /\ Cardinality(dots) <= 1
                /\ dots \cup digs = 1..Len(body)
        frac == IF dots = {} THEN 0
                ELSE Len(body) - (CHOOSE i \in dots : TRUE)
        mag  == Normalise(DigitsValue(body, 0), frac)
    IN  IF ~ok THEN [ok |-> FALSE, n |-> 0, e |-> 0]
        ELSE [ok |-> TRUE, n |-> mag.n, e |-> mag.e]

ParseFloat(v) ==
    LET neg  == v # <<>> /\ Head(v) = "-"
        body == IF neg THEN Tail(v) ELSE v
        dots == {i \in 1..Len(body) : body[i] = "."}
        digs == {i \in 1..Len(body) : body[i] \in Digits}
        ok   == /\ digs # {}
                /\ Cardinality(dots) <= 1
                /\ dots \cup digs = 1..Len(body)
        frac == IF dots = {} THEN 0
                ELSE Len(body) - (CHOOSE i \in dots : TRUE)
        mag  == Normalise(DigitsValue(body, 0), frac)
    IN  IF ~ok THEN [ok |-> FALSE, n |-> 0, e |-> 0]
        ELSE [ok |-> TRUE, n |-> IF neg THEN 0 - mag.n ELSE mag.n, e |-> mag.e]

\* The first index among hits, Len(c) + 1 if there is none: where a lazy
\* .*? or a \s* ends.
FirstOrEnd(c, hits) ==
    IF hits = {} THEN Len(c) + 1
    ELSE CHOOSE j \in hits : \A k \in hits : j <= k

\* Index of the first line at or after i that is not blank / holds the
\* marker / holds ###.
NextNonBlank(c, i) == FirstOrEnd(c, {j \in i..Len(c) : ~IsBlank(c[j])})
NextMarker(c, i) == FirstOrEnd(c, {j \in i..Len(c) : IsMarker(c[j])})
NextHashes(c, i) == FirstOrEnd(c, {j \in i..Len(c) : HasHashes(c[j])})

\* A search that returns the last match instead of the first.
Rightmost(starts) ==
    IF starts = {} THEN 0
    ELSE CHOOSE i \in starts : \A k \in starts : i >= k

\* re.search: the leftmost start at which the pattern matches, 0 if none.
Leftmost(starts) ==
    IF starts = {} THEN 0
    ELSE CHOOSE i \in starts : \A k \in starts : i <= k

\* str.strip() of a captured group: the blank lines at both ends go.
Strip(g) ==
    LET keep == {i \in 1..Len(g) : ~IsBlank(g[i])}
    IN  IF keep = {} THEN <<>>
        ELSE SubSeq(g, CHOOSE i \in keep : \A k \in keep : i <= k,
                       CHOOSE i \in keep : \A k \in keep : i >= k)

\* r'### Non-Biased Review[^\n]*\n(.*?)(?=###|$)'
SummaryMatch(c) ==
    LET IsSum(l) == IsHeading(l, SummaryHeading)
        i == Leftmost({j \in 1..Len(c) : IsSum(c[j])})
    IN  IF i = 0 THEN [matched |-> FALSE, g1 |-> <<>>]
        ELSE [matched |-> TRUE,
              g1 |-> SubSeq(c, i + 1, NextHashes(c, i + 1) - 1)]

\* r'### <name>\s*\n\*\*Score:\*\*\s*([-\d.]+).*?\n(.*?)(?=\*\*Example Tweets)'
\* matches at heading i when the next non-blank line is a score field with a
\* non-empty run and some marker follows; group 2 ends at the first marker.
SentimentStarts(c, name) ==
    {i \in 1..Len(c) :
        /\ IsHeading(c[i], name)
        /\ LET k == NextNonBlank(c, i + 1)
           IN  /\ k <= Len(c)
               /\ c[k].k = "Score"
               /\ ScoreRun(c[k].v) # <<>>
               /\ NextMarker(c, k + 1) <= Len(c)}

SentimentMatch(c, name) ==
    LET i == Leftmost(SentimentStarts(c, name))
        k == NextNonBlank(c, i + 1)
    IN  IF i = 0 THEN [matched |-> FALSE, g1 |-> <<>>, g2 |-> <<>>]
        ELSE [matched |-> TRUE,
              g1 |-> ScoreRun(c[k].v),
              g2 |-> SubSeq(c, k + 1, NextMarker(c, k + 1) - 1)]

\* A section pattern that does not name the perspective.
SectionMatchAnyHeading(c, name) ==
    LET i == Leftmost({j \in 1..Len(c) :
                          /\ c[j].k = "Head" /\ c[j].h \in Perspectives
                          /\ NextMarker(c, j + 1) <= Len(c)})
        m == NextMarker(c, i + 1)
    IN  IF i = 0 THEN [matched |-> FALSE, g1 |-> <<>>]
        ELSE [matched |-> TRUE,
              g1 |-> SubSeq(c, m + 1, NextHashes(c, m + 1) - 1)]

\* f'### {section_name}.*?\\*\\*Example Tweets:\\*\\*(.*?)(?=###|$)'
\* starts at the first heading of that name with a marker anywhere after it.
SectionMatch(c, name) ==
    LET i == Leftmost({j \in 1..Len(c) :
                          /\ IsHeading(c[j], name)
                          /\ NextMarker(c, j + 1) <= Len(c)})
        m == NextMarker(c, i + 1)
    IN  IF i = 0 THEN [matched |-> FALSE, g1 |-> <<>>]
        ELSE [matched |-> TRUE,
              g1 |-> SubSeq(c, m + 1, NextHashes(c, m + 1) - 1)]

\* An entry scan that gives up at the first entry that does not match.
RECURSIVE FindTweetsStopAtMiss(_, _)
FindTweetsStopAtMiss(g, p) ==
    IF p > Len(g) THEN <<>>
    ELSE LET q == NextNonBlank(g, p + 1)
             r == NextNonBlank(g, q + 1)
         IN  IF /\ g[p].k = "Acct"
                /\ q <= Len(g) /\ g[q].k = "TText"
                /\ r <= Len(g) /\ g[r].k = "Link"
             THEN <<[account |-> <<g[p].s, g[p].n>>,
                     text    |-> <<g[q].s, g[q].n>>,
                     url     |-> <<g[r].s, g[r].n>>]>>
                  \o FindTweetsStopAtMiss(g, r + 1)
             ELSE IF g[p].k = "Acct" THEN <<>>
             ELSE FindTweetsStopAtMiss(g, p + 1)

\* re.finditer(tweet_pattern, group): an entry matches at an account line
\* followed (\s+) by a tweet-text line and then a link line; the scan goes on
\* after the match, or at the next line when there is none.
RECURSIVE FindTweets(_, _)
FindTweets(g, p) ==
    IF p > Len(g) THEN <<>>
    ELSE LET q == NextNonBlank(g, p + 1)
             r == NextNonBlank(g, q + 1)
         IN  IF /\ g[p].k = "Acct"
                /\ q <= Len(g) /\ g[q].k = "TText"
                /\ r <= Len(g) /\ g[r].k = "Link"
             THEN <<[account |-> <<g[p].s, g[p].n>>,
                     text    |-> <<g[q].s, g[q].n>>,
                     url     |-> <<g[r].s, g[r].n>>]>>
                  \o FindTweets(g, r + 1)
             ELSE FindTweets(g, p + 1)

extract_tweets(c, section_name) ==
    LET section_match == SectionMatch(c, section_name)
    IN  IF section_match.matched THEN FindTweets(section_match.g1, 1)
        ELSE <<>>

\* The record analyze_sentiment starts from.
DefaultSentiment == [float |-> FALSE, n |-> 0, e |-> 0]
DefaultView == [sentiment |-> DefaultSentiment, summary |-> <<>>, tweets |-> <<>>]
DefaultReport ==
    [nonBiasedSummary |-> <<>>,
     Left |-> DefaultView, Center |-> DefaultView, Right |-> DefaultView]

\* One perspective of the report; float() of the score group may raise.
ViewRaises(c, name) ==
    LET m == SentimentMatch(c, name)
    IN  m.matched /\ ~ParseFloat(m.g1).ok

View(c, name) ==
    LET m == SentimentMatch(c, name)
        f == ParseFloat(m.g1)
    IN  [sentiment |-> IF m.matched
                       THEN [float |-> TRUE, n |-> f.n, e |-> f.e]
                       ELSE DefaultSentiment,
         summary   |-> IF m.matched THEN Strip(m.g2) ELSE <<>>,
         tweets    |-> extract_tweets(c, name)]

\* The parsing half of analyze_sentiment.
ExtractRaises(c) == \E name \in Perspectives : ViewRaises(c, name)

Extract(c) ==
    LET summary_match == SummaryMatch(c)
    IN  [nonBiasedSummary |-> IF summary_match.matched
                              THEN Strip(summary_match.g1) ELSE <<>>,
         Left   |-> View(c, "Left"),
         Center |-> View(c, "Center"),
         Right  |-> View(c, "Right")]

---------------------------------------------------------------------------
\* The run.

ArgLists == {[i \in 1..n |-> i] : n \in 0..MaxArgs}

UsageRecord == [kind |-> "error", body |-> "Usage"]

Init ==
    /\ pc = "start"
    /\ argv \in ArgLists
    /\ prompt = <<>>
    /\ calls = 0
    /\ shape = [layout |-> <<>>, at |-> 0, defect |-> "none"]
    /\ content = <<>>
    /\ result = DefaultReport
    /\ raised = ""
    /\ stdout = <<>>
    /\ stderr = <<>>
    /\ exitCode = -1
    /\ stages = <<>>

\* An argument check that accepts two arguments only.
TooFewArgsStrict == Len(argv) + 1 # 3

\* if len(sys.argv) < 3: sys.argv[0] is the program.
TooFewArgs == Len(argv) + 1 < 3

\* A usage error printed like the other errors.
UsageExitOnStderr ==
    /\ pc = "start"
    /\ Len(argv) + 1 < 3
    /\ stderr' = Append(stderr, UsageRecord)
    /\ exitCode' = 1
    /\ pc' = "exited"
    /\ stages' = Append(stages, "input")
    /\ UNCHANGED <<argv, prompt, calls, shape, content, result, raised, stdout>>

UsageExit ==
    /\ pc = "start"
    /\ TooFewArgs
    /\ stdout' = Append(stdout, UsageRecord)
    /\ exitCode' = 1
    /\ pc' = "exited"
    /\ stages' = Append(stages, "input")
    /\ UNCHANGED <<argv, prompt, calls, shape, content, result, raised, stderr>>

AcceptArgs ==
    /\ pc = "start"
    /\ ~TooFewArgs
    /\ pc' = "prompt"
    /\ stages' = Append(stages, "input")
    /\ UNCHANGED <<argv, prompt, calls, shape, content, result, raised,
                   stdout, stderr, exitCode>>

BuildPrompt ==
    /\ pc = "prompt"
    /\ prompt' = <<argv[1], argv[2]>>
    /\ pc' = "call"
    /\ stages' = Append(stages, "prompt")
    /\ UNCHANGED <<argv, calls, shape, content, result, raised,
                   stdout, stderr, exitCode>>

ModelCallReturns ==
    /\ pc = "call"
    /\ calls' = calls + 1
    /\ \E sh \in Shapes(MaxRunSections) :
          /\ shape' = sh
          /\ content' = TextOf(sh)
    /\ pc' = "extract"
    /\ stages' = Append(stages, "call")
    /\ UNCHANGED <<argv, prompt, result, raised, stdout, stderr, exitCode>>

\* A failed call that is tried again.
ModelCallRetries ==
    /\ pc = "call"
    /\ calls' = calls + 1
    /\ pc' = "call"
    /\ stages' = Append(stages, "call")
    /\ UNCHANGED <<argv, prompt, shape, content, result, raised,
                   stdout, stderr, exitCode>>

ModelCallRaises ==
    /\ pc = "call"
    /\ calls' = calls + 1
    /\ raised' = "UpstreamError"
    /\ pc' = "caught"
    /\ stages' = Append(stages, "call")
    /\ UNCHANGED <<argv, prompt, shape, content, result, stdout, stderr, exitCode>>

ExtractReturns ==
    /\ pc = "extract"
    /\ ~ExtractRaises(content)
    /\ result' = Extract(content)
    /\ pc' = "emit"
    /\ stages' = Append(stages, "extract")
    /\ UNCHANGED <<argv, prompt, calls, shape, content, raised,
                   stdout, stderr, exitCode>>

ExtractFails ==
    /\ pc = "extract"
    /\ ExtractRaises(content)
    /\ raised' = "ValueError"
    /\ pc' = "caught"
    /\ stages' = Append(stages, "extract")
    /\ UNCHANGED <<argv, prompt, calls, shape, content, result,
                   stdout, stderr, exitCode>>

EmitResult ==
    /\ pc = "emit"
    /\ stdout' = Append(stdout, [kind |-> "report", body |-> result])
    /\ exitCode' = 0
    /\ pc' = "exited"
    /\ stages' = Append(stages, "emit")
    /\ UNCHANGED <<argv, prompt, calls, shape, content, result, raised, stderr>>

\* An error record printed without file=sys.stderr.
EmitErrorOnStdout ==
    /\ pc = "caught"
    /\ stdout' = Append(stdout, [kind |-> "error", body |-> raised])
    /\ exitCode' = 1
    /\ pc' = "exited"
    /\ stages' = Append(stages, "emit")
    /\ UNCHANGED <<argv, prompt, calls, shape, content, result, raised, stderr>>

EmitError ==
    /\ pc = "caught"
    /\ stderr' = Append(stderr, [kind |-> "error", body |-> raised])
    /\ exitCode' = 1
    /\ pc' = "exited"
    /\ stages' = Append(stages, "emit")
    /\ UNCHANGED <<argv, prompt, calls, shape, content, result, raised, stdout>>

Next ==
    \/ UsageExit
    \/ AcceptArgs
    \/ BuildPrompt
    \/ ModelCallReturns
    \/ ModelCallRaises
    \/ ExtractReturns
    \/ ExtractFails
    \/ EmitResult
    \/ EmitError

Spec == Init /\ [][Next]_vars

\* The extractor alone, on every response text up to MaxSections sections:
\* the run stands where chat.sample() has just returned.
InitExtract ==
    /\ pc = "extract"
    /\ argv = <<1, 2>>
    /\ prompt = <<1, 2>>
    /\ calls = 1
    /\ shape \in Shapes(MaxSections)
    /\ content = TextOf(shape)
    /\ result = DefaultReport
    /\ raised = ""
    /\ stdout = <<>>
    /\ stderr = <<>>
    /\ exitCode = -1
    /\ stages = <<"input", "prompt", "call">>

NextExtract ==
    \/ ExtractReturns
    \/ ExtractFails

SpecExtract == InitExtract /\ [][NextExtract]_vars

---------------------------------------------------------------------------
\* Vocabulary of the properties: what the upstream wrote, section by section.

Occurrences(sh, name) == {i \in 1..Len(sh.layout) : sh.layout[i] = name}
Occurs(sh, name) == Occurrences(sh, name) # {}
FirstOf(S) == IF S = {} THEN 0 ELSE CHOOSE i \in S : \A k \in S : i <= k
FirstOccurrence(sh, name) == FirstOf(Occurrences(sh, name))

WrittenSentiment(s) == [float |-> TRUE, n |-> ScoreVal(s).n, e |-> ScoreVal(s).e]
WrittenTweet(s, n) == [account |-> <<s, n>>, text |-> <<s, n>>, url |-> <<s, n>>]
WrittenTweets(s) == [n \in 1..TweetsPerSection |-> WrittenTweet(s, n)]
WrittenView(s) ==
    [sentiment |-> WrittenSentiment(s),
     summary   |-> <<TextLine(s)>>,
     tweets    |-> WrittenTweets(s)]

EntryDefects == {"noAcct", "noTText", "noLink"}
Returned == pc = "emit"    \* analyze_sentiment has returned `result`

ErrorRecords(out) == \A i \in 1..Len(out) : out[i].kind = "error"

\* C1: a finished run has either printed the report of the analysis to
\* standard output and exited 0, or printed one error record and exited 1,
\* never both; when the analysis raised, the error record is on standard
\* error and standard output is empty.  Nothing is printed before the end.
C1_OneOutcome ==
    LET success == /\ exitCode = 0
                   /\ Len(stdout) = 1 /\ stdout[1].kind = "report"
                   /\ stdout[1].body = result
                   /\ stderr = <<>>
        failure == /\ exitCode = 1
                   /\ Len(stdout) + Len(stderr) = 1
                   /\ ErrorRecords(stdout) /\ ErrorRecords(stderr)
    IN  /\ pc = "exited" => (success \/ failure) /\ ~(success /\ failure)
        /\ (pc = "exited" /\ raised # "") =>
              /\ stderr = <<[kind |-> "error", body |-> raised]>>
              /\ stdout = <<>>
              /\ exitCode = 1
        /\ pc # "exited" => exitCode = -1 /\ stdout = <<>> /\ stderr = <<>>

C1_Witness ==
    pc = "exited" /\ raised = "UpstreamError" /\ Len(stderr) = 1

\* C2: the extractor never raises: every response text the upstream returns
\* ends in the report on standard output with exit status 0, never in an
\* error outcome.
C2_ExtractorNeverRaises ==
    /\ raised # "ValueError"
    /\ (pc = "exited" /\ raised # "UpstreamError" /\ ~TooFewArgs) =>
          exitCode = 0 /\ stderr = <<>>

\* C3: with zero or one positional argument the run prints the usage record
\* to standard output, exits 1, prints nothing to standard error, and never
\* builds the prompt or calls the upstream.
C3_UsageError ==
    Len(argv) < 2 =>
        /\ prompt = <<>> /\ calls = 0 /\ stderr = <<>>
        /\ pc \in {"start", "exited"}
        /\ pc = "exited" => stdout = <<UsageRecord>> /\ exitCode = 1

C3_Witness ==
    Len(argv) = 1 /\ pc = "exited" /\ stdout = <<UsageRecord>>

\* C4 as claimed: the analysis starts only with exactly two positional
\* arguments; every other count ends in the usage error.
AnalysisStarted == pc \in {"prompt", "call", "extract", "emit", "caught"} \/ calls > 0

C4_ExactlyTwo ==
    /\ AnalysisStarted => Len(argv) = 2
    /\ (pc = "exited" /\ Len(argv) # 2) => stdout = <<UsageRecord>> /\ exitCode = 1

\* C4 as amended: the analysis starts only with two or more positional
\* arguments and uses the first two; fewer than two end in the usage error
\* with exit status 1; two or more always start the analysis.
C4_AtLeastTwo ==
    /\ AnalysisStarted => Len(argv) >= 2
    /\ prompt # <<>> => prompt = <<argv[1], argv[2]>>
    /\ (pc = "exited" /\ Len(argv) < 2) => stdout = <<UsageRecord>> /\ exitCode = 1
    /\ (pc = "exited" /\ Len(argv) >= 2) => calls = 1 /\ prompt # <<>>

C4_Witness ==
    Len(argv) = 3 /\ pc = "exited" /\ calls = 1 /\ exitCode = 0

\* C5: the stages run in the order input, prompt, call, extraction, emission,
\* none twice; the upstream is called at most once, exactly once in a run
\* that passed the argument check, and a failed call is followed by the
\* emission of the error, not by a second call or the extraction.
StageRank(st) ==
    CASE st = "input" -> 1 [] st = "prompt" -> 2 [] st = "call" -> 3
      [] st = "extract" -> 4 [] st = "emit" -> 5

C5_OnePass ==
    /\ \A i \in 1..Len(stages) : \A j \in 1..Len(stages) :
          i < j => StageRank(stages[i]) < StageRank(stages[j])
    /\ \A i \in 1..Len(stages) :
          StageRank(stages[i]) \in 2..4 =>
              i > 1 /\ StageRank(stages[i - 1]) = StageRank(stages[i]) - 1
    /\ calls = Cardinality({i \in 1..Len(stages) : stages[i] = "call"})
    /\ calls <= 1
    /\ (pc = "exited" /\ ~TooFewArgs) => calls = 1
    /\ raised = "UpstreamError" =>
          /\ calls = 1
          /\ \A i \in 1..Len(stages) : stages[i] # "extract"
          /\ pc \in {"caught", "exited"}

C5_Witness ==
    pc = "exited" /\ raised = "UpstreamError" /\ calls = 1
    /\ stages = <<"input", "prompt", "call", "emit">>

\* C6: when the summary and two perspectives are present and well-formed and
\* the third perspective has no section at all, the third stays at its
\* defaults, the summary and the two others hold what their own sections
\* say, and they are what the extractor returns for the same text with the
\* missing section added at its end.
WithSection(sh, name) ==
    [layout |-> Append(sh.layout, name), at |-> 0, defect |-> "none"]

C6_Independence ==
    (Returned /\ shape.at = 0 /\ Occurs(shape, SummaryHeading)) =>
        \A missing \in Perspectives :
            (/\ ~Occurs(shape, missing)
             /\ \A other \in Perspectives \ {missing} : Occurs(shape, other)) =>
                LET full == Extract(TextOf(WithSection(shape, missing)))
                IN  /\ result[missing] = DefaultView
                    /\ result.nonBiasedSummary =
                          <<TextLine(FirstOccurrence(shape, SummaryHeading))>>
                    /\ result.nonBiasedSummary = full.nonBiasedSummary
                    /\ \A other \in Perspectives \ {missing} :
                          /\ result[other] = WrittenView(FirstOccurrence(shape, other))
                          /\ result[other] = full[other]

C6_Witness ==
    /\ Returned
    /\ shape = [layout |-> <<"Center", SummaryHeading, "Right">>,
                at |-> 0, defect |-> "none"]
    /\ result.Left = DefaultView
    /\ result.Right = WrittenView(3)

\* C7: when the second entry of a perspective's example-tweets list lacks its
\* account, its tweet text or its link, the list extracted for the
\* perspective holds the first and the third entry, in that order.
C7_PerEntry ==
    (Returned /\ shape.defect \in EntryDefects) =>
        LET name == shape.layout[shape.at]
        IN  shape.at = FirstOccurrence(shape, name) =>
                result[name].tweets =
                    <<WrittenTweet(shape.at, 1), WrittenTweet(shape.at, 3)>>

C7_Witness ==
    /\ Returned
    /\ shape.defect = "noLink" /\ shape.at = 2
    /\ shape.layout = <<SummaryHeading, "Left", "Right">>
    /\ Len(result.Left.tweets) = 2

\* C8: for a response without defect that holds the summary and the three
\* perspectives, the summary is the text of the summary section and every
\* perspective has the score, the rationale and the three entries of its own
\* section; no field is at its default.
C8_WellFormed ==
    (Returned /\ shape.at = 0 /\ \A h \in Headings : Occurs(shape, h)) =>
        /\ result.nonBiasedSummary =
              <<TextLine(FirstOccurrence(shape, SummaryHeading))>>
        /\ result.nonBiasedSummary # DefaultReport.nonBiasedSummary
        /\ \A name \in Perspectives :
              /\ result[name] = WrittenView(FirstOccurrence(shape, name))
              /\ result[name].sentiment # DefaultSentiment
              /\ result[name].summary # <<>>
              /\ Len(result[name].tweets) = TweetsPerSection

C8_Witness ==
    /\ Returned
    /\ shape = [layout |-> <<SummaryHeading, "Left", "Center", "Right">>,
                at |-> 0, defect |-> "none"]
    /\ result.Center.sentiment = [float |-> TRUE, n |-> 0, e |-> 0]

\* What a section holds.
HasScore(sh, i) == sh.layout[i] \in Perspectives /\ DefectOf(sh, i) # "noScore"
HasMarker(sh, i) == sh.layout[i] \in Perspectives /\ DefectOf(sh, i) # "noMarker"
MarkerFrom(sh, i) == FirstOf({j \in i..Len(sh.layout) : HasMarker(sh, j)})
ListedTweets(sh, j) ==
    IF DefectOf(sh, j) \in EntryDefects
    THEN <<WrittenTweet(j, 1), WrittenTweet(j, 3)>>
    ELSE WrittenTweets(j)

C10_Confined ==
    Returned =>
        \A name \in Perspectives :
            LET f == FirstOccurrence(shape, name)
                own(s) == shape.layout[s] = name
                v == result[name]
            IN  /\ \A x \in 1..Len(v.summary) :
                      v.summary[x].k = "Text" /\ own(v.summary[x].s)
                /\ \A x \in 1..Len(v.tweets) :
                      /\ own(v.tweets[x].account[1])
                      /\ own(v.tweets[x].text[1])
                      /\ own(v.tweets[x].url[1])
                /\ (f # 0 /\ ~HasMarker(shape, f)) =>
                      v.summary = <<>> /\ v.tweets = <<>>

====
